---- MODULE Spec2Model ----
(***************************************************************************)
(* Model of snqueue's virtual-queue client (src/src/snqueue/service/       *)
(* client.py) on top of the SQS port (src/src/snqueue/boto3_clients/       *)
(* sqs_client.py).                                                         *)
(*                                                                         *)
(* The client runs on one asyncio event loop.  A task runs without         *)
(* interruption from one suspension point to the next, so every action     *)
(* below is one such run.  The boto3 calls are synchronous and block the   *)
(* whole loop: the only suspension point inside _get_response is           *)
(* `await asyncio.sleep(0)`, and asyncio.wait_for delivers a timeout or a  *)
(* cancellation there (or before the wrapped coroutine has started).       *)
(***************************************************************************)
EXTENDS Integers, Sequences, FiniteSets, Bags, TLC

\* ------------------------------------------------------------- bounds
NumCalls == 2       \* request calls made in one run
NumKeys == 2        \* distinct queue urls (resource keys)
NumIds == 2         \* distinct MessageIds the publish port hands out
MaxMsgs == 3        \* messages the queues ever hold
MaxSent == 2        \* messages sent to the queues while calls are running
MaxReceives == 2    \* deliveries of one message (receipt handles)
MaxBatch == 3       \* MaxNumberOfMessages of the sqs_config in use
MaxList == 21       \* messages passed to one call of delete_messages
MaxFailing == 1     \* entries of one call of delete_messages that fail

\* Entries per delete_message_batch call.
DeleteBatchSize == 10

Calls == 1..NumCalls
Keys == 1..NumKeys
Ids == 1..NumIds
Msgs == 1..MaxMsgs
Insts == 1..NumCalls
None == 0

Min(a, b) == IF a < b THEN a ELSE b
Range(s) == {s[n] : n \in 1..Len(s)}

\* ------------------------------------------------------ message bodies
\* What default_match_fn reads of a raw message: whether 'Body' is there,
\* what MessageAttributes.SnQueueResponseMetadata.Value holds, and the
\* RequestId inside it.
MissingBody == [Body |-> "missing", Meta |-> "absent", RequestId |-> None]
NoMetadata == [Body |-> "json", Meta |-> "absent", RequestId |-> None]
BadMetadata == [Body |-> "json", Meta |-> "unparsable", RequestId |-> None]
EmptyMetadata == [Body |-> "json", Meta |-> "empty", RequestId |-> None]
Reply(r) == [Body |-> "json", Meta |-> "ok", RequestId |-> r]
Malformed == {MissingBody, NoMetadata, BadMetadata}
Bodies == Malformed \cup {EmptyMetadata} \cup {Reply(r) : r \in Ids}

VARIABLES
  resource_instances,  \* ResourceSingleton._resource_instances: key -> instance
  instKey,             \* instance -> its _sqs_url (None: not constructed)
  entered,             \* instance -> the pools exist (__aenter__ has run)
  inqueue,             \* instance -> _inqueue_messages
  processed,           \* instance -> _processed_messages
  waiting,             \* instance -> _waiting_for_polling
  pc,                  \* call -> where the call is
  eng,                 \* call -> the instance its lookup returned
  callKey,             \* call -> the key it looked up
  mid,                 \* call -> message_id returned by publish
  result,              \* call -> the raw message request returned
  sqs,                 \* message -> its state in the transport
  delBag,              \* raw messages passed to delete_message_batch, counted
  lastPoll,            \* what the most recent pulling poll cycle did
  deleteCall           \* one call of SqsClient.delete_messages on its own

vars == <<resource_instances, instKey, entered, inqueue, processed, waiting,
          pc, eng, callKey, mid, result, sqs, delBag, lastPoll,
          deleteCall>>

engineVars == <<entered, inqueue, processed, waiting>>
registryVars == <<resource_instances, instKey>>

NoRaw == [MessageId |-> None, ReceiptHandle |-> None, Body |-> MissingBody]
NoPoll == [inst |-> None, by |-> None, pulled |-> <<>>, waitingAt |-> {},
           flushed |-> <<>>, pending |-> <<>>, appended |-> <<>>, released |-> <<>>,
           raised |-> FALSE]
Unsent == [st |-> "none", q |-> None, body |-> MissingBody, rc |-> 0]
NoResult == [Successful |-> <<>>, Failed |-> <<>>]
NoCall == [pc |-> "idle", messages |-> <<>>, failing |-> {}, calls |-> <<>>,
           result |-> NoResult]

\* ----------------------------------------------------- default_match_fn
\* "raise": json.loads fails on the default {} of a missing Body, or on the
\* default "" of a missing attribute, or on an unparsable Value.
default_match_fn(message_id, raw_sqs_message) ==
  LET b == raw_sqs_message.Body IN
  IF b.Body = "missing" THEN "raise"
  ELSE IF b.Meta \in {"absent", "unparsable"} THEN "raise"
  ELSE IF b.Meta = "empty" THEN "false"
  ELSE IF message_id = b.RequestId THEN "true" ELSE "false"

\* -------------------------------------------------- SqsClient (the port)
\* Variant: every message goes into one delete_message_batch call.
delete_messages_whole(remained) ==
  IF Len(remained) = 0 THEN <<>> ELSE <<remained>>

\* delete_messages: the messages of each delete_message_batch call.
RECURSIVE delete_messages(_)
delete_messages(remained) ==
  IF Len(remained) = 0 THEN <<>>
  ELSE <<SubSeq(remained, 1, Min(DeleteBatchSize, Len(remained)))>>
       \o delete_messages(SubSeq(remained, DeleteBatchSize + 1, Len(remained)))

RECURSIVE Flatten(_)
Flatten(ss) == IF ss = <<>> THEN <<>> ELSE Head(ss) \o Flatten(Tail(ss))

RECURSIVE SeqToBag(_)
SeqToBag(s) == IF s = <<>> THEN EmptyBag ELSE SetToBag({Head(s)}) (+) SeqToBag(Tail(s))

\* Lines 61-64: the entry made of one message.
Entry(msg) == [id |-> msg.ReceiptHandle, ReceiptHandle |-> msg.ReceiptHandle]

\* Lines 61-64 and 66-69: Entries=batch of the call made for one chunk.
Entries(chunk) == [n \in 1..Len(chunk) |-> Entry(chunk[n])]

\* The transport's answer to one call: every entry is reported under
\* 'Successful' or under 'Failed', by its id.
delete_message_batch(batch, failing) ==
  LET Ok(e) == e.ReceiptHandle \notin failing
      Bad(e) == e.ReceiptHandle \in failing
      Reported(es) == [n \in 1..Len(es) |-> [Id |-> es[n].id]]
  IN [Successful |-> Reported(SelectSeq(batch, Ok)),
      Failed |-> Reported(SelectSeq(batch, Bad))]

\* Lines 70-71: result['Successful'] += ..., result['Failed'] += ..., call
\* after call.
RECURSIVE Accumulate(_, _, _)
Accumulate(acc, calls, failing) ==
  IF calls = <<>> THEN acc
  ELSE LET res == delete_message_batch(Head(calls), failing)
       IN Accumulate([Successful |-> acc.Successful \o res.Successful,
                      Failed |-> acc.Failed \o res.Failed],
                     Tail(calls), failing)

\* The transport after delete_message_batch succeeded on the entries in ok.
AfterDelete(q, ok) ==
  [m \in Msgs |->
     IF \E raw \in ok : raw.MessageId = m
     THEN [q[m] EXCEPT !.st = "deleted"] ELSE q[m]]

\* pull_messages: receive_message hands out any visible messages of the
\* queue, in any order, at most MaxNumberOfMessages of them.
Visible(q, url) ==
  {m \in Msgs : q[m].st = "visible" /\ q[m].q = url /\ q[m].rc < MaxReceives}

PullChoices(q, url) ==
  {s \in UNION {[1..n -> Visible(q, url)] : n \in 0..MaxBatch} :
     \A a, b \in 1..Len(s) : a # b => s[a] # s[b]}

RawOf(q, m) ==
  [MessageId |-> m, ReceiptHandle |-> q[m].rc + 1, Body |-> q[m].body]

AfterPull(q, ms) ==
  [m \in Msgs |->
     IF m \in Range(ms)
     THEN [q[m] EXCEPT !.st = "inflight", !.rc = q[m].rc + 1] ELSE q[m]]

\* change_message_visibility_batch(url, messages, 0): a message comes back
\* into view when the handle is the one of its latest delivery.
AfterRelease(q, raws) ==
  [m \in Msgs |->
     IF /\ q[m].st = "inflight"
        /\ \E raw \in Range(raws) :
             raw.MessageId = m /\ raw.ReceiptHandle = q[m].rc
     THEN [q[m] EXCEPT !.st = "visible"] ELSE q[m]]

\* ------------------------------------------------------ _poll_messages
\* Lines 85-95: the partition of the pulled messages.  match_fn is called
\* for the identifiers being waited for; a raise leaves the loop with what
\* was appended so far.
RECURSIVE Partition(_, _, _, _)
Partition(messages, wait, inq, unmatched) ==
  IF messages = <<>>
  THEN [inq |-> inq, unmatched |-> unmatched, raised |-> FALSE]
  ELSE LET message == Head(messages)
           outcomes == {default_match_fn(being_waited, message) : being_waited \in wait}
       IN IF "raise" \in outcomes
          THEN [inq |-> inq, unmatched |-> unmatched, raised |-> TRUE]
          ELSE IF "true" \in outcomes
          THEN Partition(Tail(messages), wait, Append(inq, message), unmatched)
          ELSE Partition(Tail(messages), wait, inq, Append(unmatched, message))

\* Variant: a flush that leaves the list as it is.
ClearProcessedKeep(proc) == proc

\* Lines 63 and 82: self._processed_messages.clear()
ClearProcessed(proc) == <<>>

\* Lines 78-98, run with an empty _inqueue_messages: flush, pull, partition,
\* release.  ok: the entries the transport deletes; ms: what it hands out.
PollCycle(i, by, ok, ms) ==
  LET proc == processed[i]
      q1 == IF Len(proc) > 0 THEN AfterDelete(sqs, ok) ELSE sqs
      messages == [n \in 1..Len(ms) |-> RawOf(q1, ms[n])]
      q2 == AfterPull(q1, ms)
      p == Partition(messages, waiting[i], inqueue[i], <<>>)
      doRelease == ~p.raised /\ Len(p.unmatched) > 0
      q3 == IF doRelease THEN AfterRelease(q2, p.unmatched) ELSE q2
  IN [inq |-> p.inq,
      proc |-> IF Len(proc) > 0 THEN ClearProcessed(proc) ELSE proc,
      raised |-> p.raised,
      sqs |-> q3,
      deleted |-> IF Len(proc) > 0 THEN Flatten(delete_messages(proc)) ELSE <<>>,
      poll |-> [inst |-> i, by |-> by, pulled |-> messages, waitingAt |-> waiting[i],
                flushed |-> IF Len(proc) > 0 THEN proc ELSE <<>>,
                pending |-> IF Len(proc) > 0 THEN ClearProcessed(proc) ELSE proc,
                appended |-> p.inq,
                released |-> IF doRelease THEN p.unmatched ELSE <<>>,
                raised |-> p.raised]]

\* -------------------------------------------------------- _get_response
\* Lines 110-111: the first index whose message matches.
RECURSIVE ScanFrom(_, _, _)
ScanFrom(queue, message_id, n) ==
  IF n > Len(queue) THEN [kind |-> "none", idx |-> 0]
  ELSE LET r == default_match_fn(message_id, queue[n])
       IN IF r = "raise" THEN [kind |-> "raise", idx |-> n]
          ELSE IF r = "true" THEN [kind |-> "match", idx |-> n]
          ELSE ScanFrom(queue, message_id, n + 1)

\* Variant: the last index whose message matches.
ScanLatest(queue, message_id) ==
  LET hits == {n \in 1..Len(queue) : default_match_fn(message_id, queue[n]) = "true"}
  IN IF hits = {} THEN [kind |-> "none", idx |-> 0]
     ELSE [kind |-> "match", idx |-> CHOOSE n \in hits : \A k \in hits : k <= n]

\* Variant: the head of the pool is taken without asking match_fn.
ScanFirst(queue, message_id) ==
  IF Len(queue) = 0 THEN [kind |-> "none", idx |-> 0]
  ELSE [kind |-> "match", idx |-> 1]

\* Lines 109-111: for i in range(len(queue)): if match_fn(message_id, queue[i])
Scan(queue, message_id) == ScanFrom(queue, message_id, 1)

\* Variant: the claimed message stays in the pool.
RemoveAtKeep(queue, n) == queue

\* Line 113: queue[:i] + queue[i+1:]
RemoveAt(queue, n) == SubSeq(queue, 1, n - 1) \o SubSeq(queue, n + 1, Len(queue))

\* Lines 108-117 for call w on pools (inq, proc, wt): claim the first match
\* and return, or reach the sleep.
ScanAndClaim(w, inq, proc, wt) ==
  LET i == eng[w]
      s == Scan(inq, mid[w])
  IN IF s.kind = "match"
     THEN LET message == inq[s.idx] IN
          /\ inqueue' = [inqueue EXCEPT ![i] = RemoveAt(inq, s.idx)]
          /\ processed' = [processed EXCEPT ![i] = Append(proc, message)]
          /\ IF mid[w] \in wt
             THEN /\ waiting' = [waiting EXCEPT ![i] = wt \ {mid[w]}]
                  /\ pc' = [pc EXCEPT ![w] = "returned"]
                  /\ result' = [result EXCEPT ![w] = message]
             ELSE \* set.remove raises KeyError
                  /\ waiting' = [waiting EXCEPT ![i] = wt]
                  /\ pc' = [pc EXCEPT ![w] = "raised"]
                  /\ result' = result
     ELSE /\ inqueue' = [inqueue EXCEPT ![i] = inq]
          /\ processed' = [processed EXCEPT ![i] = proc]
          /\ waiting' = [waiting EXCEPT ![i] = wt]
          /\ pc' = [pc EXCEPT ![w] = IF s.kind = "raise" THEN "raised" ELSE "sleeping"]
          /\ result' = result

\* ------------------------------------------------------------- actions
\* One queue shared by every caller: the concurrency of the engine.
SharedUrl == CHOOSE k \in Keys : \A j \in Keys : k <= j

Init ==
  /\ resource_instances = [k \in Keys |-> None]
  /\ instKey = [i \in Insts |-> None]
  /\ entered = [i \in Insts |-> FALSE]
  /\ inqueue = [i \in Insts |-> <<>>]
  /\ processed = [i \in Insts |-> <<>>]
  /\ waiting = [i \in Insts |-> {}]
  /\ pc = [w \in Calls |-> "idle"]
  /\ eng = [w \in Calls |-> None]
  /\ callKey = [w \in Calls |-> None]
  /\ mid = [w \in Calls |-> None]
  /\ result = [w \in Calls |-> NoRaw]
  /\ sqs = [m \in Msgs |-> Unsent]
  /\ delBag = EmptyBag
  /\ lastPoll = NoPoll
  /\ deleteCall = NoCall

\* The queue already holds replies sent earlier (the workers answered
\* requests of an earlier scope, or answered several times).
BacklogInit ==
  /\ resource_instances = [k \in Keys |-> None]
  /\ instKey = [i \in Insts |-> None]
  /\ entered = [i \in Insts |-> FALSE]
  /\ inqueue = [i \in Insts |-> <<>>]
  /\ processed = [i \in Insts |-> <<>>]
  /\ waiting = [i \in Insts |-> {}]
  /\ pc = [w \in Calls |-> "idle"]
  /\ eng = [w \in Calls |-> None]
  /\ callKey = [w \in Calls |-> None]
  /\ mid = [w \in Calls |-> None]
  /\ result = [w \in Calls |-> NoRaw]
  /\ \E c \in [Msgs -> Ids] :
       sqs = [m \in Msgs |->
                [st |-> "visible", q |-> SharedUrl, body |-> Reply(c[m]), rc |-> 0]]
  /\ delBag = EmptyBag
  /\ lastPoll = NoPoll
  /\ deleteCall = NoCall

\* Variant: every lookup constructs.
NewInstanceAlways(resource) == TRUE

\* Line 34: resource not in cls._resource_instances
NewInstance(resource) == resource_instances[resource] = None

\* ResourceSingleton.__call__: the instance of the key, constructed on the
\* first lookup.
Lookup(w, resource) ==
  /\ pc[w] = "idle"
  /\ LET fresh == CHOOSE i \in Insts : instKey[i] = None /\ \A j \in 1..(i-1) : instKey[j] # None
     IN IF NewInstance(resource)
        THEN /\ resource_instances' = [resource_instances EXCEPT ![resource] = fresh]
             /\ instKey' = [instKey EXCEPT ![fresh] = resource]
             /\ eng' = [eng EXCEPT ![w] = fresh]
        ELSE /\ UNCHANGED registryVars
             /\ eng' = [eng EXCEPT ![w] = resource_instances[resource]]
  /\ callKey' = [callKey EXCEPT ![w] = resource]
  /\ pc' = [pc EXCEPT ![w] = "client"]
  /\ UNCHANGED <<engineVars, mid, result, sqs, delBag, lastPoll,
                 deleteCall>>

\* __aenter__ on a constructed instance.
AEnter(i) ==
  /\ instKey[i] # None
  /\ inqueue' = [inqueue EXCEPT ![i] = <<>>]
  /\ processed' = [processed EXCEPT ![i] = <<>>]
  /\ waiting' = [waiting EXCEPT ![i] = {}]
  /\ entered' = [entered EXCEPT ![i] = TRUE]
  /\ UNCHANGED <<registryVars, pc, eng, callKey, mid, result, sqs, delBag, lastPoll,
                 deleteCall>>

\* __aexit__: delete what is left in _processed_messages.
AExit(i) ==
  /\ entered[i]
  /\ IF Len(processed[i]) > 0
     THEN /\ \E ok \in SUBSET Range(processed[i]) :
               sqs' = AfterDelete(sqs, ok)
          /\ delBag' = delBag (+) SeqToBag(Flatten(delete_messages(processed[i])))
          /\ processed' = [processed EXCEPT ![i] = ClearProcessed(processed[i])]
     ELSE UNCHANGED <<sqs, delBag, processed>>
  /\ UNCHANGED <<registryVars, entered, inqueue, waiting, pc, eng, callKey, mid,
                 result, lastPoll,
                 deleteCall>>

\* request, lines 129-135: publish succeeded and returned a MessageId.
Publish(w, message_id) ==
  /\ pc[w] = "client"
  /\ entered[eng[w]]
  /\ mid' = [mid EXCEPT ![w] = message_id]
  /\ pc' = [pc EXCEPT ![w] = "published"]
  /\ UNCHANGED <<registryVars, engineVars, eng, callKey, result, sqs, delBag, lastPoll,
                 deleteCall>>

\* Variant: the wait is registered before publish has answered.
PublishFailsRegistered(w) ==
  /\ pc[w] = "client"
  /\ entered[eng[w]]
  /\ waiting' = [waiting EXCEPT ![eng[w]] = @ \cup {None}]
  /\ pc' = [pc EXCEPT ![w] = "publish_failed"]
  /\ UNCHANGED <<registryVars, entered, inqueue, processed, eng, callKey, mid, result,
                 sqs, delBag, lastPoll,
                 deleteCall>>

\* request, lines 129-134: publish raised.
PublishFails(w) ==
  /\ pc[w] = "client"
  /\ entered[eng[w]]
  /\ pc' = [pc EXCEPT ![w] = "publish_failed"]
  /\ UNCHANGED <<registryVars, engineVars, eng, callKey, mid, result, sqs, delBag, lastPoll,
                 deleteCall>>

\* _get_response from its first line to the first sleep or the return.
Start(w) ==
  /\ pc[w] = "published"
  /\ LET i == eng[w] IN
     ScanAndClaim(w, inqueue[i], processed[i], waiting[i] \cup {mid[w]})
  /\ UNCHANGED <<registryVars, entered, eng, callKey, mid, sqs, delBag, lastPoll,
                 deleteCall>>

\* Variant: _poll_messages never returns early.
InqueueUncheckedNever(i) == FALSE

\* Line 74: if len(self._inqueue_messages)
InqueueUnchecked(i) == Len(inqueue[i]) > 0

\* _get_response from the sleep through _poll_messages and the scan to the
\* next sleep or the return.
Resume(w) ==
  /\ pc[w] = "sleeping"
  /\ LET i == eng[w] IN
     IF InqueueUnchecked(i)
     THEN \* someone hasn't checked inqueue messages yet
          /\ ScanAndClaim(w, inqueue[i], processed[i], waiting[i])
          /\ UNCHANGED <<sqs, delBag, lastPoll>>
     ELSE \E ok \in SUBSET Range(processed[i]) :
          \E ms \in PullChoices(IF Len(processed[i]) > 0 THEN AfterDelete(sqs, ok) ELSE sqs,
                                instKey[i]) :
            LET p == PollCycle(i, w, ok, ms) IN
            /\ sqs' = p.sqs
            /\ delBag' = delBag (+) SeqToBag(p.deleted)
            /\ lastPoll' = p.poll
            /\ IF p.raised
               THEN /\ inqueue' = [inqueue EXCEPT ![i] = p.inq]
                    /\ processed' = [processed EXCEPT ![i] = p.proc]
                    /\ pc' = [pc EXCEPT ![w] = "raised"]
                    /\ UNCHANGED <<waiting, result>>
               ELSE ScanAndClaim(w, p.inq, p.proc, waiting[i])
  /\ UNCHANGED <<registryVars, entered, eng, callKey, mid, deleteCall>>

\* asyncio.wait_for: the timeout elapses, or the call is cancelled, while
\* _get_response sleeps or before it has started.
Timeout(w) ==
  /\ pc[w] \in {"published", "sleeping"}
  /\ pc' = [pc EXCEPT ![w] = "timed_out"]
  /\ UNCHANGED <<registryVars, engineVars, eng, callKey, mid, result, sqs, delBag, lastPoll,
                 deleteCall>>

\* ---------------------------------------------------------- environment
\* Someone (a worker answering a request, or anyone else) sends a message
\* to a queue.
Send(url, body) ==
  /\ \E m \in Msgs :
       /\ m <= MaxSent
       /\ sqs[m].st = "none"
       /\ \A n \in 1..(m-1) : sqs[n].st # "none"
       /\ sqs' = [sqs EXCEPT ![m] = [st |-> "visible", q |-> url, body |-> body, rc |-> 0]]
  /\ UNCHANGED <<registryVars, engineVars, pc, eng, callKey, mid, result, delBag, lastPoll,
                 deleteCall>>

\* The visibility timeout of a delivered message runs out.
Expire(m) ==
  /\ sqs[m].st = "inflight"
  /\ sqs' = [sqs EXCEPT ![m].st = "visible"]
  /\ UNCHANGED <<registryVars, engineVars, pc, eng, callKey, mid, result, delBag, lastPoll,
                 deleteCall>>

Next ==
  \/ \E w \in Calls : Lookup(w, SharedUrl)
  \/ \E i \in Insts : AEnter(i)
  \/ \E i \in Insts : AExit(i)
  \/ \E w \in Calls, c \in Ids : Publish(w, c)
  \/ \E w \in Calls : PublishFails(w)
  \/ \E w \in Calls : Start(w)
  \/ \E w \in Calls : Resume(w)
  \/ \E w \in Calls : Timeout(w)
  \/ \E b \in Bodies : Send(SharedUrl, b)
  \/ \E m \in Msgs : Expire(m)

Spec == Init /\ [][Next]_vars

\* Callers of several queues; the workers send well-formed replies.
RegistryNext ==
  \/ \E w \in Calls, k \in Keys : Lookup(w, k)
  \/ \E i \in Insts : AEnter(i)
  \/ \E i \in Insts : AExit(i)
  \/ \E w \in Calls, c \in Ids : Publish(w, c)
  \/ \E w \in Calls : PublishFails(w)
  \/ \E w \in Calls : Start(w)
  \/ \E w \in Calls : Resume(w)
  \/ \E w \in Calls : Timeout(w)
  \/ \E k \in Keys, c \in Ids : Send(k, Reply(c))
  \/ \E m \in Msgs : Expire(m)

RegistrySpec == Init /\ [][RegistryNext]_vars

\* __aenter__ on an instance that has no pools yet.
FirstEnter(i) == ~entered[i] /\ AEnter(i)

\* One scope of one queue with a backlog of replies: the pool fills up to
\* MaxNumberOfMessages in one poll cycle.
PoolNext ==
  \/ \E w \in Calls : Lookup(w, SharedUrl)
  \/ \E i \in Insts : FirstEnter(i)
  \/ \E w \in Calls, c \in Ids : Publish(w, c)
  \/ \E w \in Calls : Start(w)
  \/ \E w \in Calls : Resume(w)
  \/ \E w \in Calls : Timeout(w)

PoolSpec == BacklogInit /\ [][PoolNext]_vars

\* SqsClient.delete_messages called on its own with a list of up to MaxList
\* messages, of which the transport fails up to MaxFailing.
DeleteInit ==
  /\ resource_instances = [k \in Keys |-> None]
  /\ instKey = [i \in Insts |-> None]
  /\ entered = [i \in Insts |-> FALSE]
  /\ inqueue = [i \in Insts |-> <<>>]
  /\ processed = [i \in Insts |-> <<>>]
  /\ waiting = [i \in Insts |-> {}]
  /\ pc = [w \in Calls |-> "idle"]
  /\ eng = [w \in Calls |-> None]
  /\ callKey = [w \in Calls |-> None]
  /\ mid = [w \in Calls |-> None]
  /\ result = [w \in Calls |-> NoRaw]
  /\ sqs = [m \in Msgs |-> Unsent]
  /\ delBag = EmptyBag
  /\ lastPoll = NoPoll
  /\ \E k \in 0..MaxList :
     \E failing \in {f \in SUBSET (1..k) : Cardinality(f) <= MaxFailing} :
       deleteCall =
         [pc |-> "called",
          messages |-> [n \in 1..k |->
                          [MessageId |-> n, ReceiptHandle |-> n, Body |-> EmptyMetadata]],
          failing |-> failing,
          calls |-> <<>>,
          result |-> NoResult]

\* delete_messages from its first line to its return.
DeleteMessagesCall ==
  /\ deleteCall.pc = "called"
  /\ LET chunks == delete_messages(deleteCall.messages)
         calls == [n \in 1..Len(chunks) |-> Entries(chunks[n])]
     IN deleteCall' = [deleteCall EXCEPT
                         !.pc = "done",
                         !.calls = calls,
                         !.result = Accumulate(NoResult, calls, deleteCall.failing)]
  /\ UNCHANGED <<registryVars, engineVars, pc, eng, callKey, mid, result, sqs, delBag,
                 lastPoll>>

DeleteNext == DeleteMessagesCall

DeleteSpec == DeleteInit /\ [][DeleteNext]_vars

\* One scope of one queue, entered once; publish hands out a MessageId of
\* its own to every request and the workers send well-formed replies.
\* publish returns a MessageId no request has had.
PublishFresh(w, message_id) ==
  /\ \A v \in Calls : mid[v] # message_id
  /\ Publish(w, message_id)

FairNext ==
  \/ \E w \in Calls : Lookup(w, SharedUrl)
  \/ \E i \in Insts : FirstEnter(i)
  \/ \E w \in Calls, c \in Ids : PublishFresh(w, c)
  \/ \E w \in Calls : Start(w)
  \/ \E w \in Calls : Resume(w)
  \/ \E w \in Calls : Timeout(w)
  \/ \E c \in Ids : Send(SharedUrl, Reply(c))

\* The event loop runs every ready task: a started or sleeping
\* _get_response is resumed.
FairSpec ==
  /\ Init /\ [][FairNext]_vars
  /\ \A w \in Calls : WF_vars(Start(w)) /\ WF_vars(Resume(w))

\* ============================================================== claims
Returned(w) == pc[w] = "returned"
Sleeping(w) == pc[w] = "sleeping"

\* Every publish so far returned a MessageId of its own.
UniqueIds ==
  \A w1, w2 \in Calls : (w1 # w2 /\ mid[w1] # None) => mid[w1] # mid[w2]

\* C1: no two request calls sharing one engine instance return the same
\* pulled message.
C1_ReplyToOneCaller ==
  \A w1, w2 \in Calls :
    (w1 # w2 /\ Returned(w1) /\ Returned(w2) /\ eng[w1] = eng[w2])
      => result[w1] # result[w2]

\* Two calls on one engine waited for the same identifier and both returned.
C1_Witness ==
  \E w1, w2 \in Calls :
    /\ w1 # w2 /\ Returned(w1) /\ Returned(w2)
    /\ eng[w1] = eng[w2] /\ mid[w1] = mid[w2]

\* C2: a request call waiting on identifier c returns only a message m with
\* match_fn(c, m) true, whatever else is in the pool and in whatever order.
C2_OnlyOwnMatch ==
  \A w \in Calls : Returned(w) => default_match_fn(mid[w], result[w]) = "true"

\* A call returned its reply from behind another waiter's message, which
\* is still in the pool.
C2_Witness ==
  \E w, v \in Calls :
    /\ w # v /\ Returned(w) /\ Sleeping(v) /\ eng[w] = eng[v]
    /\ Len(inqueue[eng[w]]) = 1
    /\ default_match_fn(mid[v], inqueue[eng[w]][1]) = "true"
    /\ default_match_fn(mid[w], inqueue[eng[w]][1]) = "false"
    /\ lastPoll.pulled = <<inqueue[eng[w]][1], result[w]>>

\* C3: with identifiers unique per request, no message is passed to
\* delete_message_batch more than once, under any of its receipt handles,
\* by the flushes of the poll cycles and of __aexit__ together.
C3_DeletedAtMostOnce ==
  UniqueIds =>
    \A r1, r2 \in BagToSet(delBag) :
      r1.MessageId = r2.MessageId => (r1 = r2 /\ CopiesIn(r1, delBag) = 1)

\* A poll cycle flushed claimed messages and another flush passed others.
C3_Witness ==
  /\ UniqueIds
  /\ Len(lastPoll.flushed) > 0
  /\ BagCardinality(delBag) > Len(lastPoll.flushed)

\* C4: when a request call has ended with TimeoutError, its identifier is
\* no longer in _waiting_for_polling (no other call waits on the same one).
C4_TimeoutUnregisters ==
  \A w \in Calls :
    (pc[w] = "timed_out" /\ \A v \in Calls \ {w} : mid[v] # mid[w])
      => mid[w] \notin waiting[eng[w]]

\* The transport holds a visible reply to call w.
ReplyDelivered(w) ==
  \E m \in Msgs :
    /\ sqs[m].st = "visible" /\ sqs[m].q = instKey[eng[w]]
    /\ sqs[m].rc < MaxReceives /\ sqs[m].body = Reply(mid[w])

\* C5: once a request call on the engine has timed out, another call that
\* waits on the same engine while its reply is in the queue eventually
\* returns (unless its own timeout ends it).
C5_OthersUnaffected ==
  \A w \in Calls :
    [](( /\ Sleeping(w)
         /\ ReplyDelivered(w)
         /\ \E v \in Calls \ {w} : pc[v] = "timed_out" /\ eng[v] = eng[w] )
       => <>(pc[w] \in {"returned", "timed_out"}))

\* Some identifier in wait matches the raw message.
MatchesSome(raw, wait) == \E c \in wait : default_match_fn(c, raw) = "true"

\* C6: of the messages a poll cycle pulled, exactly those matching an
\* identifier being waited for were appended to the pool, in pull order,
\* and exactly the others were passed to the visibility change.
C6_PollPartition ==
  LET Matched(raw) == MatchesSome(raw, lastPoll.waitingAt)
      Other(raw) == ~MatchesSome(raw, lastPoll.waitingAt)
  IN lastPoll.inst # None =>
       /\ lastPoll.appended = SelectSeq(lastPoll.pulled, Matched)
       /\ lastPoll.released = SelectSeq(lastPoll.pulled, Other)

\* Calls that looked up equal keys hold the same instance, and only those.
SameInstanceIffSameKey ==
  \A w1, w2 \in Calls :
    (pc[w1] # "idle" /\ pc[w2] # "idle")
      => (callKey[w1] = callKey[w2] <=> eng[w1] = eng[w2])

\* The three pools of instance i.
Pools(i) == <<inqueue[i], processed[i], waiting[i]>>

\* The step is an operation on instance i.
OperatesOn(i) ==
  \/ AEnter(i)
  \/ AExit(i)
  \/ \E w \in Calls :
       /\ eng[w] = i
       /\ \/ Start(w) \/ Resume(w) \/ Timeout(w) \/ PublishFails(w)
          \/ \E c \in Ids : Publish(w, c)

\* C7: lookups with equal keys return the same instance and lookups with
\* different keys distinct ones, and an operation on one instance leaves the
\* pools of an instance with another key as they were.
C7_OneInstancePerKey ==
  [][ /\ SameInstanceIffSameKey'
      /\ \A i, j \in Insts :
           (OperatesOn(i) /\ instKey[j] # instKey[i]) => Pools(j)' = Pools(j)
    ]_vars

\* Two instances with different keys, each with a pool in use.
C7_Witness ==
  \E w1, w2 \in Calls :
    /\ Returned(w1) /\ Sleeping(w2)
    /\ callKey[w1] # callKey[w2] /\ eng[w1] # eng[w2]
    /\ Len(processed[eng[w1]]) > 0
    /\ waiting[eng[w2]] # {}

\* C8: a request whose publish fails ends there: the step changes none of
\* the pools, registers no wait, runs no poll cycle, and the call does
\* nothing afterwards.
C8_PublishFailureRegistersNothing ==
  [][ \A w \in Calls :
        /\ (pc[w] = "client" /\ pc'[w] = "publish_failed")
             => UNCHANGED <<inqueue, processed, waiting, sqs, delBag, lastPoll>>
        /\ pc[w] = "publish_failed" => pc'[w] = "publish_failed"
    ]_vars

\* A publish failed on an engine on which another call is waiting.
C8_Witness ==
  \E w, v \in Calls :
    /\ pc[w] = "publish_failed" /\ Sleeping(v) /\ eng[w] = eng[v]
    /\ waiting[eng[w]] = {mid[v]}

\* C9: a poll cycle that pulled a malformed message completed without
\* raising and passed that message to the visibility change.
C9_MalformedIsUnmatched ==
  \A n \in 1..Len(lastPoll.pulled) :
    lastPoll.pulled[n].Body \in Malformed
      => /\ ~lastPoll.raised
         /\ lastPoll.pulled[n] \in Range(lastPoll.released)

\* The replies returned so far by the calls on instance i.
ClaimedOn(i) == {result[w] : w \in {v \in Calls : Returned(v) /\ eng[v] = i}}

\* C10: when a poll cycle issues its pull, and when __aexit__ has run, the
\* Claimed pool is empty and every message claimed on the engine before has
\* been passed to delete_message_batch.
C10_ClaimedDeletedByNextPull ==
  [][ /\ \A w \in Calls :
           (Resume(w) /\ Len(inqueue[eng[w]]) = 0)
             => /\ lastPoll'.pending = <<>>
                /\ ClaimedOn(eng[w]) \subseteq BagToSet(delBag')
      /\ \A i \in Insts :
           AExit(i)
             => /\ processed'[i] = <<>>
                /\ ClaimedOn(i) \subseteq BagToSet(delBag')
    ]_vars

\* Calls w1 and w2 were both registered on one engine when its latest poll
\* cycle pulled a message matching w2's identifier followed by one matching
\* w1's.
PulledInReverse(w1, w2) ==
  /\ w1 # w2 /\ eng[w1] = eng[w2] /\ lastPoll.inst = eng[w1]
  /\ mid[w1] # mid[w2]
  /\ {mid[w1], mid[w2]} \subseteq lastPoll.waitingAt
  /\ Len(lastPoll.pulled) = 2
  /\ default_match_fn(mid[w2], lastPoll.pulled[1]) = "true"
  /\ default_match_fn(mid[w1], lastPoll.pulled[2]) = "true"

\* C11: when a poll cycle has pulled the reply to w2 followed by the reply
\* to w1 while both were registered, then (the event loop resuming every
\* sleeping call) both calls eventually return, each the message matching
\* its own identifier, unless a timeout ends one of them.
C11_BothReturnOwn ==
  \A w1, w2 \in Calls :
    [](PulledInReverse(w1, w2)
        => <>( \/ pc[w1] = "timed_out" \/ pc[w2] = "timed_out"
               \/ /\ Returned(w1) /\ default_match_fn(mid[w1], result[w1]) = "true"
                  /\ Returned(w2) /\ default_match_fn(mid[w2], result[w2]) = "true" ))

\* The call whose reply came second ran the poll cycle, and both calls
\* returned their own replies.
C11_Witness ==
  \E w1, w2 \in Calls :
    /\ PulledInReverse(w1, w2) /\ lastPoll.by = w1
    /\ Returned(w1) /\ result[w1] = lastPoll.pulled[2]
    /\ Returned(w2) /\ result[w2] = lastPoll.pulled[1]

\* C12: every reply of the latest poll cycle that matched no identifier
\* being waited for was passed to the visibility change and was not put
\* into the pool.
C12_UnmatchedReleased ==
  lastPoll.inst # None =>
    \A n \in 1..Len(lastPoll.pulled) :
      ( /\ lastPoll.pulled[n].Body.Meta = "ok"
        /\ ~MatchesSome(lastPoll.pulled[n], lastPoll.waitingAt) )
        => /\ lastPoll.pulled[n] \in Range(lastPoll.released)
           /\ lastPoll.pulled[n] \notin Range(lastPoll.appended)

\* The identifiers of the calls suspended in the wait loop of instance i.
BlockedOn(i) == {mid[w] : w \in {v \in Calls : Sleeping(v) /\ eng[v] = i}}

\* C13: on every entered instance _waiting_for_polling is exactly the set
\* of identifiers of the calls suspended in its wait loop.
C13_WaitingIsBlocked ==
  \A i \in Insts : entered[i] => waiting[i] = BlockedOn(i)

\* C14: a message the flush of the latest poll cycle passed to
\* delete_message_batch and the transport did not delete (it was reported
\* in Failed) is still in _processed_messages after that flush.
C14_FailedStaysClaimed ==
  \A n \in 1..Len(lastPoll.flushed) :
    sqs[lastPoll.flushed[n].MessageId].st # "deleted"
      => lastPoll.flushed[n] \in Range(lastPoll.pending)

\* C15: a poll cycle run while _inqueue_messages is non-empty passes nothing
\* to delete, pulls nothing and releases nothing, and a message is delivered
\* to an engine only in a step that starts with its _inqueue_messages empty.
C15_PullOnlyWhenEmpty ==
  [][ /\ \A w \in Calls :
           (Resume(w) /\ Len(inqueue[eng[w]]) > 0)
             => UNCHANGED <<sqs, delBag, lastPoll>>
      /\ \A m \in Msgs :
           sqs'[m].rc # sqs[m].rc
             => Len(inqueue[resource_instances[sqs[m].q]]) = 0
    ]_vars

\* Call w was registered and asleep when call v's poll cycle pulled its
\* reply; w then ran its own poll cycle on the non-empty pool and claimed
\* the reply, while v is still waiting.
C15_Witness ==
  \E w, v \in Calls :
    /\ w # v /\ Returned(w) /\ Sleeping(v) /\ eng[w] = eng[v]
    /\ lastPoll.by = v /\ lastPoll.inst = eng[w]
    /\ mid[w] \in lastPoll.waitingAt
    /\ result[w] \in Range(lastPoll.appended)

\* The pool a step of call w scans: what its poll cycle leaves in
\* _inqueue_messages when it pulls, the pool as it is otherwise.
ScannedPool(w) ==
  IF Sleeping(w) /\ Len(inqueue[eng[w]]) = 0
  THEN lastPoll'.appended ELSE inqueue[eng[w]]

\* C16: a step in which a call returns takes the lowest index of the scanned
\* pool whose message matches the call's identifier, returns that message,
\* and leaves in the pool all other messages in their order.
C16_FirstMatchWins ==
  [][ \A w \in Calls :
        (~Returned(w) /\ Returned(w)')
          => LET P == ScannedPool(w) IN
             \E n \in 1..Len(P) :
               /\ default_match_fn(mid[w], P[n]) = "true"
               /\ \A k \in 1..(n-1) : default_match_fn(mid[w], P[k]) # "true"
               /\ result'[w] = P[n]
               /\ inqueue'[eng[w]] =
                    [k \in 1..(Len(P)-1) |-> IF k < n THEN P[k] ELSE P[k+1]]
    ]_vars

\* A poll cycle pulled three messages, the first and the last for call w;
\* w returned the first and the other two are in the pool in pull order.
C16_Witness ==
  \E w \in Calls :
    /\ Returned(w) /\ lastPoll.inst = eng[w]
    /\ Len(lastPoll.pulled) = 3
    /\ result[w] = lastPoll.pulled[1]
    /\ default_match_fn(mid[w], lastPoll.pulled[2]) = "false"
    /\ default_match_fn(mid[w], lastPoll.pulled[3]) = "true"
    /\ inqueue[eng[w]] = <<lastPoll.pulled[2], lastPoll.pulled[3]>>

\* Message m is in the _inqueue_messages of some instance.
InPool(m) ==
  \E i \in Insts : \E n \in 1..Len(inqueue[i]) : inqueue[i][n].MessageId = m

\* C17: every message put into _inqueue_messages eventually leaves it (by
\* a claim, the only way out), whatever becomes of the waiter it matched.
C17_PooledEventuallyClaimed ==
  \A m \in Msgs : InPool(m) ~> ~InPool(m)

C19_ReentryKeepsPools ==
  [][ \A i \in Insts : (entered[i] /\ AEnter(i)) => Pools(i)' = Pools(i) ]_vars

\* The receipt handles of a list of messages or entries, in order.
Handles(s) == [n \in 1..Len(s) |-> s[n].ReceiptHandle]

\* The 'Id's of a list of results, in order.
ResultIds(s) == [n \in 1..Len(s) |-> s[n].Id]

\* C20: a call of delete_messages on k messages has made ceil(k/10) calls
\* of delete_message_batch, each with 1 to 10 entries, the entries of the
\* calls one after the other being the input messages in input order, and
\* it returns under 'Successful' and 'Failed' what the calls reported, in
\* call order; on no message it makes no call and returns two empty lists.
C20_DeleteInChunks ==
  deleteCall.pc = "done" =>
    LET k == Len(deleteCall.messages)
        calls == deleteCall.calls
        Ok(h) == h \notin deleteCall.failing
        Bad(h) == h \in deleteCall.failing
    IN /\ Len(calls) = (k + 9) \div 10
       /\ \A n \in 1..Len(calls) : Len(calls[n]) \in 1..10
       /\ Handles(Flatten(calls)) = Handles(deleteCall.messages)
       /\ ResultIds(deleteCall.result.Successful)
            = SelectSeq(Handles(deleteCall.messages), Ok)
       /\ ResultIds(deleteCall.result.Failed)
            = SelectSeq(Handles(deleteCall.messages), Bad)
       /\ k = 0 => (calls = <<>> /\ deleteCall.result = NoResult)

\* delete_messages has returned from a list of 21 messages: three calls, of
\* 10, 10 and 1 entries, and the entry that failed in the second call is
\* the one under 'Failed'.
C20_Witness ==
  /\ deleteCall.pc = "done"
  /\ Len(deleteCall.messages) = 21
  /\ Len(deleteCall.calls) = 3
  /\ Len(deleteCall.calls[2]) = 10 /\ Len(deleteCall.calls[3]) = 1
  /\ deleteCall.failing = {15}
  /\ ResultIds(deleteCall.result.Failed) = <<15>>

====
